---- MODULE Spec2Model ----
(***************************************************************************)
(* Model of pkg/controller/csr_check.go of cluster-machine-approver: the   *)
(* authorization decision for node client (bootstrap) and node serving     *)
(* certificate signing requests, the serving renewal check, and the count  *)
(* of recently pending CSRs.                                               *)
(*                                                                         *)
(* Go values are represented as follows.  A string is a TLA+ string.  A    *)
(* slice is a sequence.  A pointer is a sequence of length 0 (nil) or 1.   *)
(* An error is a string, nilErr standing for a nil error.  A time.Time is  *)
(* an integer number of seconds, a time.Duration likewise.                 *)
(***************************************************************************)
EXTENDS Integers, Sequences, FiniteSets, TLC

VARIABLES
    config,      \* ClusterMachineApproverConfig: [NodeClientCert: [Disabled]]
    machines,    \* []machinev1.Machine, the snapshot handed to authorizeCSR
    req,         \* *certificatesv1.CertificateSigningRequest
    csr,         \* *x509.CertificateRequest
    ca,          \* *x509.CertPool
    pc,          \* position of the decision in flight
    result,      \* the (bool, error) authorizeCSR returned
    asking,      \* authorizeCSR: nodeAsking, the name validateCSRContents returned
    nodeGet,     \* outcome of the c.Get of the Node that the decision waited for
    host,        \* getServingCert: the node's first internal IP
    servingCert, \* authorizeCSR: the certificate getServingCert returned
    probeErr,    \* authorizeCSR: the error getServingCert returned
    renewalErr,  \* the error authorizeServingRenewal returned
    fellBack,    \* whether the machine-api authorization scheme was executed
    cancelled,   \* whether the caller of authorizeCSR has cancelled its work
    clock,       \* the value now() returns
    csrs,        \* the CSR list handed to recentlyPendingCSRs
    pending      \* the value recentlyPendingCSRs returned

vars ==
    <<config, machines, req, csr, ca, pc, result, asking, nodeGet, host,
      servingCert, probeErr, renewalErr, fellBack, cancelled, clock, csrs,
      pending>>

-----------------------------------------------------------------------------
(* Bounds of the model.                                                    *)

MaxMachines == 2
MaxSANs == 2
MaxCSRs == 2

-----------------------------------------------------------------------------
(* Constants of the program.                                               *)

nodeUser == "system:node"
nodeGroup == "system:nodes"
nodeUserPrefix == nodeUser \o ":"

\* time.Hour, in seconds
maxPendingDelta == 3600

nodeBootstrapperUsername ==
    "system:serviceaccount:openshift-machine-config-operator:node-bootstrapper"

\* 10 * time.Second, in seconds
maxMachineClockSkew == 10

\* 2 * time.Hour, in seconds
maxMachineDelta == 7200

nodeBootstrapperGroups ==
    { "system:serviceaccounts:openshift-machine-config-operator",
      "system:serviceaccounts",
      "system:authenticated" }

UsageDigitalSignature == "digital signature"
UsageKeyEncipherment == "key encipherment"
UsageServerAuth == "server auth"
UsageClientAuth == "client auth"

CertificateApproved == "Approved"
CertificateDenied == "Denied"

NodeHostName == "Hostname"
NodeInternalIP == "InternalIP"
NodeExternalIP == "ExternalIP"
NodeInternalDNS == "InternalDNS"
NodeExternalDNS == "ExternalDNS"

-----------------------------------------------------------------------------
(* Go library functions.                                                   *)

nilErr == "nil"

nilPtr == <<>>

Ptr(v) == <<v>>

\* strings.HasPrefix
HasPrefix(s, prefix) ==
    Len(s) >= Len(prefix) /\ SubSeq(s, 1, Len(prefix)) = prefix

\* strings.TrimPrefix
TrimPrefix(s, prefix) ==
    IF HasPrefix(s, prefix) THEN SubSeq(s, Len(prefix) + 1, Len(s)) ELSE s

\* sets.NewString
NewString(items) == { items[i] : i \in DOMAIN items }

\* sets.String.HasAll
HasAll(set, items) == items \subseteq set

\* time.Time.Add
Add(t, d) == t + d

\* time.Time.After
After(t, u) == t > u

\* time.Time.Before
Before(t, u) == t < u

\* net.IP.String: an IPv4 address prints in dotted form whether it is held in
\* 4 bytes or in 16 (IPv4-mapped); an IP of length 0 prints as "<nil>".
IPString(ip) == IF ip.len = 0 THEN "<nil>" ELSE ip.text

\* url.URL.String
URLString(u) == u.Scheme \o "://" \o u.Host

\* The strings the model sorts, in the byte order sort.Strings uses.
StringOrder ==
    << "", "10.0.0.1", "10.0.0.2", "<nil>", "a@n1", "b@n1", "https://n1",
       "https://n2", "n1", "n1.internal", "n2.internal" >>

StringRank(s) == CHOOSE i \in DOMAIN StringOrder : StringOrder[i] = s

StringLess(a, b) == StringRank(a) < StringRank(b)

RECURSIVE InsertSorted(_, _)
InsertSorted(s, x) ==
    IF s = <<>> THEN <<x>>
    ELSE IF StringLess(x, Head(s)) THEN <<x>> \o s
    ELSE <<Head(s)>> \o InsertSorted(Tail(s), x)

\* sort.Strings
RECURSIVE SortStrings(_)
SortStrings(s) ==
    IF s = <<>> THEN <<>>
    ELSE InsertSorted(SortStrings(SubSeq(s, 1, Len(s) - 1)), s[Len(s)])

\* x509.Certificate.Verify with VerifyOptions{Roots: roots}: the chain ends in
\* a root of the pool and the certificate has not expired.
Verify(cert, roots) == cert.Issuer \in roots /\ ~cert.Expired

-----------------------------------------------------------------------------
(* The functions of csr_check.go.                                          *)

ValidateOK(name) == [nodeAsking |-> name, err |-> nilErr]

ValidateErr(e) == [nodeAsking |-> "", err |-> e]

validateCSRContents_noPrefixCheck(r, x) ==
    LET nodeAsking == TrimPrefix(r.Spec.Username, nodeUserPrefix)
        groupSet == NewString(r.Spec.Groups)
        usageSet == NewString(r.Spec.Usages)
        hasOrg ==
            \E i \in DOMAIN x.Subject.Organization :
                x.Subject.Organization[i] = nodeGroup
    IN
    IF Len(nodeAsking) = 0 THEN ValidateOK("")
    ELSE IF Len(r.Spec.Groups) < 2 THEN ValidateErr("Too few groups")
    ELSE IF ~HasAll(groupSet, {nodeGroup, "system:authenticated"})
        THEN ValidateErr("groups not in system:authenticated and system:nodes")
    ELSE IF Len(r.Spec.Usages) # 3 THEN ValidateErr("Too few usages")
    ELSE IF ~HasAll(usageSet,
                    {UsageDigitalSignature, UsageKeyEncipherment, UsageServerAuth})
        THEN ValidateErr("is missing usages")
    ELSE IF x.Subject.CommonName # r.Spec.Username
        THEN ValidateErr("Mismatched CommonName")
    ELSE IF ~hasOrg THEN ValidateErr("Organization doesn't include system:nodes")
    ELSE ValidateOK(nodeAsking)

validateCSRContents(r, x) ==
    LET nodeAsking == TrimPrefix(r.Spec.Username, nodeUserPrefix)
        groupSet == NewString(r.Spec.Groups)
        usageSet == NewString(r.Spec.Usages)
        hasOrg ==
            \E i \in DOMAIN x.Subject.Organization :
                x.Subject.Organization[i] = nodeGroup
    IN
    IF ~HasPrefix(r.Spec.Username, nodeUserPrefix) THEN ValidateOK("")
    ELSE IF Len(nodeAsking) = 0 THEN ValidateOK("")
    ELSE IF Len(r.Spec.Groups) < 2 THEN ValidateErr("Too few groups")
    ELSE IF ~HasAll(groupSet, {nodeGroup, "system:authenticated"})
        THEN ValidateErr("groups not in system:authenticated and system:nodes")
    ELSE IF Len(r.Spec.Usages) # 3 THEN ValidateErr("Too few usages")
    ELSE IF ~HasAll(usageSet,
                    {UsageDigitalSignature, UsageKeyEncipherment, UsageServerAuth})
        THEN ValidateErr("is missing usages")
    ELSE IF x.Subject.CommonName # r.Spec.Username
        THEN ValidateErr("Mismatched CommonName")
    ELSE IF ~hasOrg THEN ValidateErr("Organization doesn't include system:nodes")
    ELSE ValidateOK(nodeAsking)

isReqFromNodeBootstrapper(r) ==
    /\ r.Spec.Username = nodeBootstrapperUsername
    /\ nodeBootstrapperGroups = NewString(r.Spec.Groups)

\* isNodeClientCert is called by authorizeCSR and defined outside csr_check.go:
\* the node-client-bootstrap shape of the specification (section 4.3).
isNodeClientCert(r, x) ==
    /\ r.Spec.Username = nodeBootstrapperUsername
    /\ NewString(r.Spec.Groups) = nodeBootstrapperGroups
    /\ HasPrefix(x.Subject.CommonName, nodeUserPrefix)
    /\ Len(TrimPrefix(x.Subject.CommonName, nodeUserPrefix)) > 0
    /\ NewString(r.Spec.Usages) =
           {UsageDigitalSignature, UsageKeyEncipherment, UsageClientAuth}

emptyMachine ==
    [CreationTimestamp |-> 0,
     Status |-> [NodeRef |-> nilPtr, Addresses |-> <<>>]]

FirstIndex(matching) ==
    CHOOSE i \in matching : \A j \in matching : i <= j

findMatchingMachineFromNodeRef_anyBound(nodeName, ms) ==
    LET matching == { i \in DOMAIN ms : ms[i].Status.NodeRef # nilPtr } IN
    IF matching = {} THEN [machine |-> emptyMachine, ok |-> FALSE]
    ELSE [machine |-> ms[FirstIndex(matching)], ok |-> TRUE]

findMatchingMachineFromNodeRef(nodeName, ms) ==
    LET matching ==
            { i \in DOMAIN ms :
                /\ ms[i].Status.NodeRef # nilPtr
                /\ ms[i].Status.NodeRef[1].Name = nodeName }
    IN
    IF matching = {} THEN [machine |-> emptyMachine, ok |-> FALSE]
    ELSE [machine |-> ms[FirstIndex(matching)], ok |-> TRUE]

findMatchingMachineFromInternalDNS_anyType(nodeName, ms) ==
    LET matching ==
            { i \in DOMAIN ms :
                \E j \in DOMAIN ms[i].Status.Addresses :
                    ms[i].Status.Addresses[j].Address = nodeName }
    IN
    IF matching = {} THEN [machine |-> emptyMachine, ok |-> FALSE]
    ELSE [machine |-> ms[FirstIndex(matching)], ok |-> TRUE]

findMatchingMachineFromInternalDNS(nodeName, ms) ==
    LET matching ==
            { i \in DOMAIN ms :
                \E j \in DOMAIN ms[i].Status.Addresses :
                    /\ ms[i].Status.Addresses[j].Type = NodeInternalDNS
                    /\ ms[i].Status.Addresses[j].Address = nodeName }
    IN
    IF matching = {} THEN [machine |-> emptyMachine, ok |-> FALSE]
    ELSE [machine |-> ms[FirstIndex(matching)], ok |-> TRUE]

inTimeSpan_closed(start, end, check) == check >= start /\ check <= end

inTimeSpan(start, end, check) == After(check, start) /\ Before(check, end)

isApproved(c) ==
    \E i \in DOMAIN c.Status.Conditions :
        c.Status.Conditions[i].Type = CertificateApproved

RECURSIVE countPending(_, _, _, _)
countPending(list, i, start, end) ==
    IF i > Len(list) THEN 0
    ELSE IF ~inTimeSpan(start, end, list[i].CreationTimestamp)
        THEN countPending(list, i + 1, start, end)
    ELSE IF ~isApproved(list[i])
        THEN 1 + countPending(list, i + 1, start, end)
    ELSE countPending(list, i + 1, start, end)

recentlyPendingCSRs_deniedNotPending(list, currentTime) ==
    Cardinality({ i \in DOMAIN list :
        /\ inTimeSpan(Add(currentTime, -maxPendingDelta),
                      Add(currentTime, maxMachineClockSkew),
                      list[i].CreationTimestamp)
        /\ list[i].Status.Conditions = <<>> })

recentlyPendingCSRs(list, currentTime) ==
    LET start == Add(currentTime, -maxPendingDelta)
        end == Add(currentTime, maxMachineClockSkew)
    IN countPending(list, 1, start, end)

\* nodeInternalIP: [host, err]
nodeInternalIP(node) ==
    LET internal ==
            { i \in DOMAIN node.Status.Addresses :
                node.Status.Addresses[i].Type = NodeInternalIP }
    IN
    IF internal = {} THEN [host |-> "", err |-> "node has no internal addresses"]
    ELSE [host |-> node.Status.Addresses[FirstIndex(internal)].Address,
          err |-> nilErr]

equalStrings_unsorted(a, b) == a = b

equalStrings(a, b) == SortStrings(a) = SortStrings(b)

equalURLs(a, b) ==
    IF Len(a) # Len(b) THEN FALSE
    ELSE SortStrings([i \in DOMAIN a |-> URLString(a[i])])
             = SortStrings([i \in DOMAIN b |-> URLString(b[i])])

equalIPAddresses(a, b) ==
    IF Len(a) # Len(b) THEN FALSE
    ELSE SortStrings([i \in DOMAIN a |-> IPString(a[i])])
             = SortStrings([i \in DOMAIN b |-> IPString(b[i])])

\* authorizeServingRenewal: the error it returns
authorizeServingRenewal(nodeName, x, currentCert, options) ==
    IF x = nilPtr \/ currentCert = nilPtr \/ options.Roots = nilPtr
        THEN "CSR, serving cert, or CA not provided"
    ELSE IF ~Verify(currentCert[1], options.Roots[1])
        THEN "x509: certificate verification failed"
    ELSE IF currentCert[1].Subject.CommonName # nodeUser \o ":" \o nodeName
        THEN "current serving cert has bad common name"
    ELSE IF currentCert[1].Subject.CommonName # x[1].Subject.CommonName
        THEN "current serving cert and CSR common name mismatch"
    ELSE IF ~( /\ equalStrings(currentCert[1].DNSNames, x[1].DNSNames)
               /\ equalStrings(currentCert[1].EmailAddresses, x[1].EmailAddresses)
               /\ equalIPAddresses(currentCert[1].IPAddresses, x[1].IPAddresses)
               /\ equalURLs(currentCert[1].URIs, x[1].URIs) )
        THEN "CSR Subject Alternate Name values do not match current certificate"
    ELSE nilErr

Decision(approved, err) == [approved |-> approved, err |-> err]

noDecision == Decision(FALSE, "no decision returned yet")

DNSAddressTypes == {NodeInternalDNS, NodeExternalDNS, NodeHostName}

IPAddressTypes == {NodeInternalIP, NodeExternalIP}

foundDNSSan_anyType(san, addresses) ==
    \E i \in DOMAIN addresses : san = addresses[i].Address

\* authorizeCSR, the inner loop over targetMachine.Status.Addresses for a DNS SAN
foundDNSSan(san, addresses) ==
    \E i \in DOMAIN addresses :
        /\ addresses[i].Type \in DNSAddressTypes
        /\ san = addresses[i].Address

\* authorizeCSR, the inner loop over targetMachine.Status.Addresses for an IP SAN
foundIPSan(san, addresses) ==
    \E i \in DOMAIN addresses :
        /\ addresses[i].Type \in IPAddressTypes
        /\ IPString(san) = addresses[i].Address

\* authorizeCSR, the loop over csr.DNSNames: the error it returns with
RECURSIVE checkDNSNames(_, _, _)
checkDNSNames(names, i, addresses) ==
    IF i > Len(names) THEN nilErr
    ELSE IF Len(names[i]) = 0 THEN checkDNSNames(names, i + 1, addresses)
    ELSE IF ~foundDNSSan(names[i], addresses)
        THEN "DNS name not in machine names"
    ELSE checkDNSNames(names, i + 1, addresses)

\* authorizeCSR, the loop over csr.IPAddresses: the error it returns with
RECURSIVE checkIPAddresses(_, _, _)
checkIPAddresses(ips, i, addresses) ==
    IF i > Len(ips) THEN nilErr
    ELSE IF ips[i].len = 0 THEN checkIPAddresses(ips, i + 1, addresses)
    ELSE IF ~foundIPSan(ips[i], addresses)
        THEN "IP address not in machine addresses"
    ELSE checkIPAddresses(ips, i + 1, addresses)

\* authorizeCSR from "Fall back to the original machine-api based
\* authorization scheme" to its end
machineAPIAuthorization(nodeAsking, ms, x) ==
    LET target == findMatchingMachineFromNodeRef(nodeAsking, ms)
        addresses == target.machine.Status.Addresses
        dnsErr == checkDNSNames(x.DNSNames, 1, addresses)
        ipErr == checkIPAddresses(x.IPAddresses, 1, addresses)
    IN
    IF ~target.ok THEN Decision(FALSE, "Unable to find machine for node")
    ELSE IF dnsErr # nilErr THEN Decision(FALSE, dnsErr)
    ELSE IF ipErr # nilErr THEN Decision(FALSE, ipErr)
    ELSE Decision(TRUE, nilErr)

authorizeCSR_afterProbe_failureDenies(nodeAsking, ms, x, pool, cert, err) ==
    LET renewal ==
            IF err = nilErr /\ cert # nilPtr
            THEN authorizeServingRenewal(nodeAsking, x, cert, [Roots |-> pool])
            ELSE "not called"
    IN
    IF renewal = nilErr
    THEN [result |-> Decision(TRUE, nilErr), renewalErr |-> renewal,
          fellBack |-> FALSE]
    ELSE IF err # nilErr
    THEN [result |-> Decision(FALSE, err), renewalErr |-> renewal,
          fellBack |-> FALSE]
    ELSE [result |-> machineAPIAuthorization(nodeAsking, ms, x[1]),
          renewalErr |-> renewal, fellBack |-> TRUE]

\* authorizeCSR after getServingCert returned (cert, err):
\* [result, renewalErr, fellBack]
authorizeCSR_afterProbe(nodeAsking, ms, x, pool, cert, err) ==
    LET renewal ==
            IF err = nilErr /\ cert # nilPtr
            THEN authorizeServingRenewal(nodeAsking, x, cert, [Roots |-> pool])
            ELSE "not called"
    IN
    IF renewal = nilErr
    THEN [result |-> Decision(TRUE, nilErr), renewalErr |-> renewal,
          fellBack |-> FALSE]
    ELSE [result |-> machineAPIAuthorization(nodeAsking, ms, x[1]),
          renewalErr |-> renewal, fellBack |-> TRUE]

\* authorizeNodeClientCSR after c.Get returned with the given outcome
authorizeNodeClientCSR_afterGet(outcome, ms, r, x) ==
    LET nodeName == TrimPrefix(x.Subject.CommonName, nodeUserPrefix)
        found == findMatchingMachineFromInternalDNS(nodeName, ms)
        nodeMachine == found.machine
        start == Add(nodeMachine.CreationTimestamp, -maxMachineClockSkew)
        end == Add(nodeMachine.CreationTimestamp, maxMachineDelta)
    IN
    IF outcome = "error" THEN Decision(FALSE, "failed get existing nodes")
    ELSE IF outcome = "found" THEN Decision(FALSE, nilErr)
    ELSE IF ~found.ok THEN Decision(FALSE, "failed to find machine for node")
    ELSE IF nodeMachine.Status.NodeRef # nilPtr THEN Decision(FALSE, nilErr)
    ELSE IF ~inTimeSpan(start, end, r.CreationTimestamp)
        THEN Decision(FALSE, nilErr)
    ELSE Decision(TRUE, nilErr)

Returned(decision) ==
    [pc |-> "done", result |-> decision, nodeAsking |-> "", fellBack |-> FALSE]

authorizeCSR_entry_disabledFirst ==
    IF req = nilPtr \/ csr = nilPtr THEN Returned(Decision(FALSE, nilErr))
    ELSE IF config.NodeClientCert.Disabled
    THEN Returned(Decision(FALSE,
             "CSR for node client cert rejected as the flow is disabled"))
    ELSE IF isNodeClientCert(req[1], csr[1])
    THEN [pc |-> "clientNodeGet", result |-> noDecision, nodeAsking |-> "",
          fellBack |-> FALSE]
    ELSE LET v == validateCSRContents(req[1], csr[1]) IN
         IF v.nodeAsking = "" \/ v.err # nilErr
         THEN Returned(Decision(FALSE, nilErr))
         ELSE IF ca # nilPtr
         THEN [pc |-> "probeNodeGet", result |-> noDecision,
               nodeAsking |-> v.nodeAsking, fellBack |-> FALSE]
         ELSE [pc |-> "done",
               result |-> machineAPIAuthorization(v.nodeAsking, machines, csr[1]),
               nodeAsking |-> v.nodeAsking, fellBack |-> TRUE]

\* authorizeCSR from its entry to its return or to the first call it waits in
\* (c.Get in authorizeNodeClientCSR or in getServingCert):
\* [pc, result, nodeAsking, fellBack]
authorizeCSR_entry ==
    IF req = nilPtr \/ csr = nilPtr THEN Returned(Decision(FALSE, nilErr))
    ELSE IF isNodeClientCert(req[1], csr[1])
    THEN IF config.NodeClientCert.Disabled
         THEN Returned(Decision(FALSE,
                  "CSR for node client cert rejected as the flow is disabled"))
         ELSE IF ~isReqFromNodeBootstrapper(req[1])
         THEN Returned(Decision(FALSE, nilErr))
         ELSE IF Len(TrimPrefix(csr[1].Subject.CommonName, nodeUserPrefix)) = 0
         THEN Returned(Decision(FALSE, nilErr))
         ELSE [pc |-> "clientNodeGet", result |-> noDecision, nodeAsking |-> "",
               fellBack |-> FALSE]
    ELSE LET v == validateCSRContents(req[1], csr[1]) IN
         IF v.nodeAsking = "" \/ v.err # nilErr
         THEN Returned(Decision(FALSE, nilErr))
         ELSE IF ca # nilPtr
         THEN [pc |-> "probeNodeGet", result |-> noDecision,
               nodeAsking |-> v.nodeAsking, fellBack |-> FALSE]
         ELSE [pc |-> "done",
               result |-> machineAPIAuthorization(v.nodeAsking, machines, csr[1]),
               nodeAsking |-> v.nodeAsking, fellBack |-> TRUE]

-----------------------------------------------------------------------------
(* The environment of a decision: the Node the API returns and the         *)
(* certificate the kubelet presents.                                       *)

NodeGetOutcomes == {"found", "notfound", "error"}

Address(type, address) == [Type |-> type, Address |-> address]

Node(addresses) == [Name |-> "n1", Status |-> [Addresses |-> addresses]]

ProbeNodes ==
    { Node(<<Address(NodeInternalDNS, "n1.internal")>>),
      Node(<<Address(NodeExternalIP, "10.0.0.2"),
             Address(NodeInternalIP, "10.0.0.1")>>) }

IP4(text) == [len |-> 4, text |-> text]

IP16(text) == [len |-> 16, text |-> text]

emptyIP == [len |-> 0, text |-> ""]

URL(scheme, hostName) == [Scheme |-> scheme, Host |-> hostName]

Reverse(s) == [i \in DOMAIN s |-> s[Len(s) + 1 - i]]

Certificate(issuer, expired, cn, dns, email, ips, uris) ==
    [Issuer |-> issuer, Expired |-> expired, Subject |-> [CommonName |-> cn],
     DNSNames |-> dns, EmailAddresses |-> email, IPAddresses |-> ips,
     URIs |-> uris]

\* tls.DialWithDialer with tls.Config{RootCAs: pool, ServerName: serverName}
\* completes its handshake: the peer certificate chains to the pool and
\* names the IP dialled.
HandshakeOK(cert, pool, serverName) ==
    /\ cert.Issuer \in pool
    /\ \E i \in DOMAIN cert.IPAddresses :
           IPString(cert.IPAddresses[i]) = serverName

\* The certificates a kubelet may present to a CSR x: with the SANs of x, in
\* the same or in reverse order, or with the SANs of node n1, valid or
\* expired since the handshake, of node n1 or of a node n2.
KubeletCerts(x) ==
    { Certificate("kubelet-ca", FALSE, nodeUserPrefix \o "n1", san[1], san[2],
                  san[3], san[4]) :
        san \in { <<x.DNSNames, x.EmailAddresses, x.IPAddresses, x.URIs>>,
                  <<Reverse(x.DNSNames), Reverse(x.EmailAddresses),
                    Reverse(x.IPAddresses), Reverse(x.URIs)>>,
                  <<(<<"n1.internal">>), <<>>, <<IP4("10.0.0.1")>>, <<>>>> } }
    \cup
    { Certificate("kubelet-ca", TRUE, nodeUserPrefix \o "n1",
                  <<"n1.internal">>, <<>>, <<IP4("10.0.0.1")>>, <<>>),
      Certificate("kubelet-ca", FALSE, nodeUserPrefix \o "n2",
                  <<"n1.internal">>, <<>>, <<IP4("10.0.0.1")>>, <<>>) }

-----------------------------------------------------------------------------
(* The steps of a decision.                                                *)

\* authorizeCSR is called and runs until it returns or waits for the API
authorizeCSR ==
    /\ pc = "start"
    /\ LET out == authorizeCSR_entry IN
        /\ pc' = out.pc
        /\ result' = out.result
        /\ asking' = out.nodeAsking
        /\ fellBack' = out.fellBack
    /\ UNCHANGED <<config, machines, req, csr, ca, nodeGet, host, servingCert,
                   probeErr, renewalErr, cancelled, clock, csrs, pending>>

\* authorizeNodeClientCSR: c.Get of the Node returns and the function runs to
\* its return
authorizeNodeClientCSR_Get ==
    /\ pc = "clientNodeGet"
    /\ \E outcome \in NodeGetOutcomes :
        /\ nodeGet' = outcome
        /\ result' = authorizeNodeClientCSR_afterGet(outcome, machines, req[1],
                                                     csr[1])
    /\ pc' = "done"
    /\ UNCHANGED <<config, machines, req, csr, ca, asking, host,
                   servingCert, probeErr, renewalErr, fellBack, cancelled,
                   clock, csrs, pending>>

\* getServingCert: c.Get of the Node returns; the function returns its error,
\* or the error of nodeInternalIP, to authorizeCSR, or goes on to dial
getServingCert_Get ==
    /\ pc = "probeNodeGet"
    /\ \E outcome \in NodeGetOutcomes, node \in ProbeNodes :
        LET internal == nodeInternalIP(node)
            err == IF outcome = "error" THEN "the server is unavailable"
                   ELSE IF outcome = "notfound" THEN "nodes not found"
                   ELSE internal.err
            out == authorizeCSR_afterProbe(asking, machines, csr, ca,
                                           nilPtr, err)
        IN
        /\ nodeGet' = outcome
        /\ IF err # nilErr
           THEN /\ probeErr' = err
                /\ result' = out.result
                /\ renewalErr' = out.renewalErr
                /\ fellBack' = out.fellBack
                /\ pc' = "done"
                /\ host' = host
           ELSE /\ host' = internal.host
                /\ pc' = "dial"
                /\ UNCHANGED <<probeErr, result, renewalErr, fellBack>>
    /\ UNCHANGED <<config, machines, req, csr, ca, asking, servingCert,
                   cancelled, clock, csrs, pending>>

\* getServingCert: tls.DialWithDialer returns, with an error or with the
\* connection whose first peer certificate the function returns; authorizeCSR
\* runs to its return
getServingCert_Dial ==
    /\ pc = "dial"
    /\ \E conn \in {nilPtr} \cup { Ptr(cert) : cert \in KubeletCerts(csr[1]) } :
        LET err == IF conn = nilPtr THEN "dial tcp: i/o timeout" ELSE nilErr
            out == authorizeCSR_afterProbe(asking, machines, csr, ca, conn,
                                           err)
        IN
        /\ conn # nilPtr => HandshakeOK(conn[1], ca[1], host)
        /\ servingCert' = conn
        /\ probeErr' = err
        /\ result' = out.result
        /\ renewalErr' = out.renewalErr
        /\ fellBack' = out.fellBack
    /\ pc' = "done"
    /\ UNCHANGED <<config, machines, req, csr, ca, asking, nodeGet, host,
                   cancelled, clock, csrs, pending>>

-----------------------------------------------------------------------------
(* The inputs of a decision.                                               *)

SeqsUpTo(S, n) == UNION { [1..k -> S] : k \in 0..n }

Request(username, groups, usages, created) ==
    [Name |-> "csr-1", CreationTimestamp |-> created,
     Spec |-> [Username |-> username, Groups |-> groups, Usages |-> usages]]

CertificateRequest(cn, org, dns, email, ips, uris) ==
    [Subject |-> [CommonName |-> cn, Organization |-> org], DNSNames |-> dns,
     EmailAddresses |-> email, IPAddresses |-> ips, URIs |-> uris]

Machine(created, nodeRef, addresses) ==
    [CreationTimestamp |-> created,
     Status |-> [NodeRef |-> nodeRef, Addresses |-> addresses]]

NodeRef(name) == Ptr([Name |-> name])

servingGroups == <<nodeGroup, "system:authenticated">>

bootstrapperGroups ==
    << "system:serviceaccounts:openshift-machine-config-operator",
       "system:serviceaccounts", "system:authenticated" >>

servingUsages ==
    <<UsageDigitalSignature, UsageKeyEncipherment, UsageServerAuth>>

clientUsages ==
    <<UsageDigitalSignature, UsageKeyEncipherment, UsageClientAuth>>

MachineTimes == {10000, 10001}

\* CSR creation times at, just inside and just outside the ends of the
\* bootstrap window of each machine
CSRTimes ==
    MachineTimes \cup
    { m + d + e : m \in MachineTimes,
                  d \in {-maxMachineClockSkew, maxMachineDelta},
                  e \in {-1, 0, 1} }

internalAddresses ==
    <<Address(NodeInternalIP, "10.0.0.1"),
      Address(NodeInternalDNS, "n1.internal")>>

hostAddresses ==
    <<Address(NodeInternalIP, "10.0.0.1"),
      Address(NodeHostName, "n1.internal")>>

externalAddresses ==
    <<Address(NodeExternalDNS, "n1.internal"),
      Address(NodeExternalIP, "10.0.0.1")>>

\* a DNS name held in an IP-typed address and an IP in a DNS-typed one
crossedAddresses ==
    <<Address(NodeInternalIP, "n1.internal"),
      Address(NodeHostName, "10.0.0.1")>>

ServingMachines ==
    { Machine(10000, NodeRef("n1"), hostAddresses),
      Machine(10000, NodeRef("n1"), externalAddresses),
      Machine(10000, NodeRef("n1"), crossedAddresses),
      Machine(10000, NodeRef("n2"), internalAddresses),
      Machine(10000, nilPtr, internalAddresses) }

ClientMachines ==
    { Machine(created, nodeRef, addresses) :
        created \in MachineTimes,
        nodeRef \in {nilPtr, NodeRef("n1")},
        addresses \in { <<Address(NodeInternalDNS, "n1")>>,
                        <<Address(NodeHostName, "n1"),
                          Address(NodeInternalDNS, "n2")>> } }

\* the DNS and IP SANs of a serving CSR: at most MaxSANs of them in all
ServingSANs ==
    { san \in SeqsUpTo({"n1.internal", ""}, MaxSANs)
                  \X SeqsUpTo({IP16("10.0.0.1"), emptyIP}, MaxSANs) :
        Len(san[1]) + Len(san[2]) <= MaxSANs }

\* the email and URI SANs of a serving CSR
OtherSANs ==
    { <<(<<>>), <<>>>>,
      <<(<<"a@n1">>), <<>>>>,
      <<(<<>>), <<URL("https", "n1")>>>> }

CAPools == {nilPtr, Ptr({"kubelet-ca"})}

Configs == { [NodeClientCert |-> [Disabled |-> d]] : d \in BOOLEAN }

InitLocals ==
    /\ pc = "start"
    /\ result = noDecision
    /\ asking = ""
    /\ nodeGet = "none"
    /\ host = ""
    /\ servingCert = nilPtr
    /\ probeErr = nilErr
    /\ renewalErr = "not called"
    /\ fellBack = FALSE
    /\ cancelled = FALSE
    /\ clock = 0
    /\ csrs = <<>>
    /\ pending = 0

\* a well-formed node serving CSR of node n1; the client flow is disabled
\* only in decisions made without a CA pool
InitServing ==
    /\ config \in Configs
    /\ ca \in CAPools
    /\ config.NodeClientCert.Disabled => ca = nilPtr
    /\ machines \in SeqsUpTo(ServingMachines, MaxMachines)
    /\ req = Ptr(Request(nodeUserPrefix \o "n1", servingGroups, servingUsages,
                         10000))
    /\ \E san \in ServingSANs, other \in OtherSANs :
        csr = Ptr(CertificateRequest(nodeUserPrefix \o "n1", <<nodeGroup>>,
                                     san[1], other[1], san[2], other[2]))
    /\ InitLocals

\* a well-formed node client CSR of the node bootstrapper for node n1
InitClient ==
    /\ config \in Configs
    /\ ca \in CAPools
    /\ machines \in SeqsUpTo(ClientMachines, MaxMachines)
    /\ \E created \in CSRTimes :
        req = Ptr(Request(nodeBootstrapperUsername, bootstrapperGroups,
                          clientUsages, created))
    /\ csr = Ptr(CertificateRequest(nodeUserPrefix \o "n1", <<nodeGroup>>,
                                    <<>>, <<>>, <<>>, <<>>))
    /\ InitLocals

\* CSRs of every requester, group list, usage list and subject
InitShape ==
    /\ config \in Configs
    /\ ca \in CAPools
    /\ machines = << Machine(10000, NodeRef("n1"), internalAddresses),
                     Machine(10000, nilPtr, <<Address(NodeInternalDNS, "n1")>>) >>
    /\ \E username \in {nodeUserPrefix \o "n1", nodeUserPrefix,
                        nodeBootstrapperUsername, "system:admin"},
          groups \in {servingGroups, bootstrapperGroups,
                      <<"system:authenticated">>, <<nodeGroup, nodeGroup>>},
          usages \in {servingUsages, clientUsages,
                      <<UsageDigitalSignature, UsageKeyEncipherment>>,
                      servingUsages \o <<UsageClientAuth>>} :
        req = Ptr(Request(username, groups, usages, 10000))
    /\ \E cn \in {nodeUserPrefix \o "n1", nodeUserPrefix, "system:admin"},
          org \in {<<nodeGroup>>, <<>>} :
        csr = Ptr(CertificateRequest(cn, org, <<"n1.internal">>, <<>>,
                                     <<IP16("10.0.0.1")>>, <<>>))
    /\ InitLocals

\* authorizeCSR called without a request or without a parsed request
InitNil ==
    /\ config \in Configs
    /\ ca \in CAPools
    /\ machines = <<>>
    /\ \E r \in {nilPtr, Ptr(Request(nodeUserPrefix \o "n1", servingGroups,
                                     servingUsages, 10000))},
          x \in {nilPtr, Ptr(CertificateRequest(nodeUserPrefix \o "n1",
                                                <<nodeGroup>>, <<>>, <<>>, <<>>,
                                                <<>>))} :
        /\ r = nilPtr \/ x = nilPtr
        /\ req = r
        /\ csr = x
    /\ InitLocals

Init == InitServing \/ InitClient \/ InitShape \/ InitNil

Next ==
    \/ authorizeCSR
    \/ authorizeNodeClientCSR_Get
    \/ getServingCert_Get
    \/ getServingCert_Dial

Spec == Init /\ [][Next]_vars

-----------------------------------------------------------------------------
(* Cancellation.  authorizeCSR takes no context: the caller's cancellation *)
(* is a fact of the caller alone, and the calls the decision waits in are  *)
(* made with context.Background() and a dialer without a context.          *)

Blocked == {"clientNodeGet", "probeNodeGet", "dial"}

\* the caller cancels its work while the decision waits
Cancel ==
    /\ pc \in Blocked
    /\ ~cancelled
    /\ cancelled' = TRUE
    /\ UNCHANGED <<config, machines, req, csr, ca, pc, result, asking, nodeGet,
                   host, servingCert, probeErr, renewalErr, fellBack, clock,
                   csrs, pending>>

InitCancel == InitClient \/ InitShape

NextCancel ==
    \/ authorizeCSR
    \/ authorizeNodeClientCSR_Get
    \/ getServingCert_Get
    \/ getServingCert_Dial
    \/ Cancel

SpecCancel == InitCancel /\ [][NextCancel]_vars

-----------------------------------------------------------------------------
(* authorizeServingRenewal on its own: every combination of node name,     *)
(* CSR, current certificate and roots.                                     *)

RenewalDNSNames == SeqsUpTo({"n1.internal", "n2.internal"}, MaxSANs)

RenewalEmails == SeqsUpTo({"a@n1", "b@n1"}, MaxSANs)

RenewalIPs == SeqsUpTo({IP4("10.0.0.1"), IP16("10.0.0.1"), IP4("10.0.0.2")}, MaxSANs)

RenewalURIs == SeqsUpTo({URL("https", "n1"), URL("https", "n2")}, MaxSANs)

\* the SANs of the CSR and of the certificate: the lists of one kind vary over
\* every pair, the lists of the other kinds are equal
RenewalSANs ==
    { [csrSAN |-> <<d[1], <<"a@n1">>, <<IP16("10.0.0.1")>>, <<>>>>,
       certSAN |-> <<d[2], <<"a@n1">>, <<IP4("10.0.0.1")>>, <<>>>>] :
        d \in RenewalDNSNames \X RenewalDNSNames }
    \cup
    { [csrSAN |-> <<(<<"n1.internal">>), e[1], <<>>, <<URL("https", "n1")>>>>,
       certSAN |-> <<(<<"n1.internal">>), e[2], <<>>, <<URL("https", "n1")>>>>] :
        e \in RenewalEmails \X RenewalEmails }
    \cup
    { [csrSAN |-> <<(<<"n1.internal">>), <<>>, i[1], <<>>>>,
       certSAN |-> <<(<<"n1.internal">>), <<>>, i[2], <<>>>>] :
        i \in RenewalIPs \X RenewalIPs }
    \cup
    { [csrSAN |-> <<(<<>>), <<>>, <<IP4("10.0.0.1")>>, u[1]>>,
       certSAN |-> <<(<<>>), <<>>, <<IP4("10.0.0.1")>>, u[2]>>] :
        u \in RenewalURIs \X RenewalURIs }

InitRenewal ==
    /\ config = [NodeClientCert |-> [Disabled |-> FALSE]]
    /\ machines = <<>>
    /\ req = nilPtr
    /\ ca \in CAPools
    /\ asking = "n1"
    /\ \E san \in RenewalSANs,
          csrCN \in {nodeUserPrefix \o "n1", nodeUserPrefix \o "n2"},
          certCN \in {nodeUserPrefix \o "n1", nodeUserPrefix \o "n2"},
          issuer \in {"kubelet-ca", "other-ca"},
          expired \in BOOLEAN,
          missing \in {"none", "csr", "cert"} :
        /\ missing # "none" =>
               /\ san = CHOOSE one \in RenewalSANs : TRUE
               /\ csrCN = certCN /\ issuer = "kubelet-ca" /\ ~expired
        /\ csr = IF missing = "csr" THEN nilPtr
                 ELSE Ptr(CertificateRequest(csrCN, <<nodeGroup>>,
                          san.csrSAN[1], san.csrSAN[2], san.csrSAN[3],
                          san.csrSAN[4]))
        /\ servingCert = IF missing = "cert" THEN nilPtr
                         ELSE Ptr(Certificate(issuer, expired, certCN,
                                  san.certSAN[1], san.certSAN[2],
                                  san.certSAN[3], san.certSAN[4]))
    /\ pc = "renewal"
    /\ result = noDecision
    /\ nodeGet = "none"
    /\ host = ""
    /\ probeErr = nilErr
    /\ renewalErr = "not called"
    /\ fellBack = FALSE
    /\ cancelled = FALSE
    /\ clock = 0
    /\ csrs = <<>>
    /\ pending = 0

\* authorizeServingRenewal is called and returns
authorizeServingRenewal_Call ==
    /\ pc = "renewal"
    /\ renewalErr' = authorizeServingRenewal(asking, csr, servingCert,
                                             [Roots |-> ca])
    /\ pc' = "done"
    /\ UNCHANGED <<config, machines, req, csr, ca, result, asking, nodeGet,
                   host, servingCert, probeErr, fellBack, cancelled, clock,
                   csrs, pending>>

SpecRenewal == InitRenewal /\ [][authorizeServingRenewal_Call]_vars

-----------------------------------------------------------------------------
(* recentlyPendingCSRs: the controller lists the CSRs, one more at each    *)
(* pass, and counts the recently pending ones.                             *)

Condition(type) == [Type |-> type]

\* CSRs created at, just inside and just outside the ends of the span of
\* recent CSRs, with every list of conditions
ListedCSRs(currentTime) ==
    { [Name |-> "csr", CreationTimestamp |-> created,
       Status |-> [Conditions |-> conditions]] :
        created \in {currentTime} \cup
                    { currentTime + d + e :
                        d \in {-maxPendingDelta, maxMachineClockSkew},
                        e \in {-1, 0, 1} },
        conditions \in { <<>>, <<Condition(CertificateApproved)>>,
                         <<Condition(CertificateDenied)>>,
                         <<Condition(CertificateDenied),
                           Condition(CertificateApproved)>> } }

InitPending ==
    /\ config = [NodeClientCert |-> [Disabled |-> FALSE]]
    /\ machines = <<>>
    /\ req = nilPtr
    /\ csr = nilPtr
    /\ ca = nilPtr
    /\ pc = "pending"
    /\ result = noDecision
    /\ asking = ""
    /\ nodeGet = "none"
    /\ host = ""
    /\ servingCert = nilPtr
    /\ probeErr = nilErr
    /\ renewalErr = "not called"
    /\ fellBack = FALSE
    /\ cancelled = FALSE
    /\ clock \in {20000}
    /\ csrs = <<>>
    /\ pending = recentlyPendingCSRs(<<>>, clock)

\* one more CSR is listed and recentlyPendingCSRs counts the list
recentlyPendingCSRs_Call ==
    /\ pc = "pending"
    /\ Len(csrs) < MaxCSRs
    /\ \E c \in ListedCSRs(clock) :
        /\ csrs' = Append(csrs, c)
        /\ pending' = recentlyPendingCSRs(csrs', clock)
    /\ UNCHANGED <<config, machines, req, csr, ca, pc, result, asking, nodeGet,
                   host, servingCert, probeErr, renewalErr, fellBack,
                   cancelled, clock>>

SpecPending == InitPending /\ [][recentlyPendingCSRs_Call]_vars

-----------------------------------------------------------------------------
(* What the properties below speak of.                                     *)

Done == pc = "done"

HaveRequest == req # nilPtr /\ csr # nilPtr

\* (true, nil)
Approved == result = Decision(TRUE, nilErr)

\* (false, nil)
Dropped == result = Decision(FALSE, nilErr)

\* (false, err) with err non-nil
Refused == ~result.approved /\ result.err # nilErr

\* the CSR passes the node serving classification
ServingCSR ==
    /\ HaveRequest
    /\ validateCSRContents(req[1], csr[1]).nodeAsking # ""
    /\ validateCSRContents(req[1], csr[1]).err = nilErr

AskingName == validateCSRContents(req[1], csr[1]).nodeAsking

MachinesByNodeRef(name) ==
    { i \in DOMAIN machines :
        /\ machines[i].Status.NodeRef # nilPtr
        /\ machines[i].Status.NodeRef[1].Name = name }

TargetMachine == machines[FirstIndex(MachinesByNodeRef(AskingName))]

\* a CA pool was supplied, the kubelet probe succeeded and the renewal check
\* approved
RenewalApproved ==
    /\ ca # nilPtr
    /\ probeErr = nilErr
    /\ servingCert # nilPtr
    /\ renewalErr = nilErr

\* a CA pool was supplied and the kubelet probe failed or the renewal check
\* declined
ProbeFailedOrDeclined ==
    /\ ca # nilPtr
    /\ \/ probeErr # nilErr
       \/ servingCert # nilPtr /\ renewalErr # nilErr

\* what authorizeCSR returns for the CSR and the Machine snapshot when no CA
\* pool is supplied
NoCAResult == machineAPIAuthorization(AskingName, machines, csr[1])

\* the bootstrap authorizer has decided a CSR of the node bootstrapper that
\* names a node
ClientDecided ==
    /\ Done
    /\ HaveRequest
    /\ isReqFromNodeBootstrapper(req[1])
    /\ Len(TrimPrefix(csr[1].Subject.CommonName, nodeUserPrefix)) > 0
    /\ nodeGet # "none"

ClientNodeName == TrimPrefix(csr[1].Subject.CommonName, nodeUserPrefix)

MachinesByInternalDNS(name) ==
    { i \in DOMAIN machines :
        \E j \in DOMAIN machines[i].Status.Addresses :
            /\ machines[i].Status.Addresses[j].Type = "InternalDNS"
            /\ machines[i].Status.Addresses[j].Address = name }

BootstrapMachine == machines[FirstIndex(MachinesByInternalDNS(ClientNodeName))]

NodeExists == nodeGet = "found"

LookupFailed == nodeGet = "error"

NoBootstrapMachine ==
    nodeGet = "notfound" /\ MachinesByInternalDNS(ClientNodeName) = {}

MachineBound ==
    /\ nodeGet = "notfound"
    /\ MachinesByInternalDNS(ClientNodeName) # {}
    /\ BootstrapMachine.Status.NodeRef # nilPtr

\* preconditions 1-5 of the bootstrap authorizer hold
WindowCase ==
    /\ ClientDecided
    /\ nodeGet = "notfound"
    /\ MachinesByInternalDNS(ClientNodeName) # {}
    /\ BootstrapMachine.Status.NodeRef = nilPtr

WindowStart == BootstrapMachine.CreationTimestamp - maxMachineClockSkew

WindowEnd == BootstrapMachine.CreationTimestamp + maxMachineDelta

OutOfWindow ==
    /\ WindowCase
    /\ \/ req[1].CreationTimestamp < WindowStart
       \/ req[1].CreationTimestamp > WindowEnd

-----------------------------------------------------------------------------
(* C1, as stated: a serving CSR whose asking name has no Machine by        *)
(* NodeRef gets (false, err), whatever the CA pool, the kubelet probe and  *)
(* the renewal check.                                                      *)
C1_NoMachineAlwaysRefused ==
    (Done /\ ServingCSR /\ MachinesByNodeRef(AskingName) = {}) => Refused

(* C1, amended: a serving CSR whose asking name has no Machine by NodeRef  *)
(* gets (false, err), unless a CA pool is supplied, the kubelet probe      *)
(* succeeds and the renewal check approves: then it gets (true, nil).      *)
C1_NoMachineRefusedUnlessRenewal ==
    (Done /\ ServingCSR /\ MachinesByNodeRef(AskingName) = {})
        => IF RenewalApproved THEN Approved ELSE Refused

C1_Witness ==
    /\ Done
    /\ ServingCSR
    /\ MachinesByNodeRef(AskingName) = {}
    /\ Len(machines) > 0
    /\ ProbeFailedOrDeclined
    /\ servingCert # nilPtr
    /\ Refused

-----------------------------------------------------------------------------
(* C2, as stated: in the bootstrap authorizer node-already-exists, no      *)
(* Machine by InternalDNS, Machine already bound and out-of-window each    *)
(* give (false, nil); only a failed Node lookup gives (false, err).        *)
C2_OnlyLookupFailureRequeues ==
    ClientDecided =>
        /\ (NodeExists \/ NoBootstrapMachine \/ MachineBound \/ OutOfWindow)
               => Dropped
        /\ LookupFailed => Refused
        /\ result.err # nilErr => LookupFailed

(* C2, amended: node-already-exists, Machine already bound and             *)
(* out-of-window each give (false, nil); a failed Node lookup and no       *)
(* Machine matching by InternalDNS each give (false, err), and nothing     *)
(* else gives an error.                                                    *)
C2_LookupFailureAndNoMachineRequeue ==
    ClientDecided =>
        /\ (NodeExists \/ MachineBound \/ OutOfWindow) => Dropped
        /\ (LookupFailed \/ NoBootstrapMachine) => Refused
        /\ result.err # nilErr => (LookupFailed \/ NoBootstrapMachine)

C2_Witness ==
    /\ ClientDecided
    /\ NoBootstrapMachine
    /\ Len(machines) > 0
    /\ Refused

-----------------------------------------------------------------------------
(* C3, as stated: under preconditions 1-5 the decision is (true, nil) when *)
(* the CSR was created in the closed interval [machine - 10s, machine +    *)
(* 2h] and (false, nil) otherwise.                                         *)
C3_ClosedWindow ==
    WindowCase =>
        IF /\ req[1].CreationTimestamp >= WindowStart
           /\ req[1].CreationTimestamp <= WindowEnd
        THEN Approved
        ELSE Dropped

(* C3, amended: under preconditions 1-5 the decision is (true, nil) when   *)
(* the CSR was created strictly inside (machine - 10s, machine + 2h) and   *)
(* (false, nil) otherwise, the two end points included.                    *)
C3_OpenWindow ==
    WindowCase =>
        IF /\ req[1].CreationTimestamp > WindowStart
           /\ req[1].CreationTimestamp < WindowEnd
        THEN Approved
        ELSE Dropped

C3_Witness ==
    /\ WindowCase
    /\ req[1].CreationTimestamp = WindowEnd
    /\ Dropped

-----------------------------------------------------------------------------
\* the requester is neither a node nor the node bootstrapper
OtherRequester ==
    /\ HaveRequest
    /\ ~HasPrefix(req[1].Spec.Username, "system:node:")
    /\ req[1].Spec.Username # nodeBootstrapperUsername

(* C4: a CSR whose requester neither begins with system:node: nor is the   *)
(* node bootstrapper gets (false, nil), without any lookup, whatever its   *)
(* subject, usages and groups, the Machines, the CA pool and the flag.     *)
C4_OtherRequesterIgnored ==
    OtherRequester =>
        /\ pc \in {"start", "done"}
        /\ nodeGet = "none"
        /\ Done => Dropped

C4_Witness ==
    /\ Done
    /\ OtherRequester
    /\ req[1].Spec.Groups = servingGroups
    /\ req[1].Spec.Usages = servingUsages
    /\ csr[1].Subject.CommonName = req[1].Spec.Username
    /\ csr[1].Subject.Organization = <<nodeGroup>>
    /\ config.NodeClientCert.Disabled
    /\ Dropped

-----------------------------------------------------------------------------
(* C5: for a serving CSR with a CA pool, a failed kubelet probe or a       *)
(* declined renewal is no result of its own: authorizeCSR executes the     *)
(* machine-api scheme and returns what it returns without a CA pool.       *)
C5_ProbeFailureFallsThrough ==
    (Done /\ ServingCSR /\ ProbeFailedOrDeclined)
        => fellBack /\ result = NoCAResult

C5_Witness ==
    /\ Done
    /\ ServingCSR
    /\ ca # nilPtr
    /\ probeErr # nilErr
    /\ fellBack
    /\ Approved

-----------------------------------------------------------------------------
Occurrences(list, x) == Cardinality({ i \in DOMAIN list : list[i] = x })

\* equal as collections of strings, whatever the order
SameStrings(a, b) ==
    \A x \in NewString(a) \cup NewString(b) :
        Occurrences(a, x) = Occurrences(b, x)

IPStrings(ips) == [i \in DOMAIN ips |-> IPString(ips[i])]

URLStrings(urls) == [i \in DOMAIN urls |-> URLString(urls[i])]

RenewalConditions ==
    /\ ca # nilPtr
    /\ servingCert[1].Issuer \in ca[1]
    /\ ~servingCert[1].Expired
    /\ servingCert[1].Subject.CommonName = "system:node:" \o asking
    /\ csr[1].Subject.CommonName = servingCert[1].Subject.CommonName
    /\ SameStrings(csr[1].DNSNames, servingCert[1].DNSNames)
    /\ SameStrings(csr[1].EmailAddresses, servingCert[1].EmailAddresses)
    /\ SameStrings(IPStrings(csr[1].IPAddresses),
                   IPStrings(servingCert[1].IPAddresses))
    /\ SameStrings(URLStrings(csr[1].URIs), URLStrings(servingCert[1].URIs))

(* C6: authorizeServingRenewal returns no error if and only if the current *)
(* certificate verifies against the roots, its CN is system:node:<asking   *)
(* name>, the CSR's CN equals it, and the DNS, email, IP and URI SANs of   *)
(* the CSR and of the certificate are equal as collections of canonical    *)
(* strings, whatever their order.                                          *)
C6_RenewalIffAllFour ==
    Done =>
        IF csr = nilPtr \/ servingCert = nilPtr THEN renewalErr # nilErr
        ELSE (renewalErr = nilErr) <=> RenewalConditions

C6_Witness ==
    /\ Done
    /\ renewalErr = nilErr
    /\ Len(csr[1].IPAddresses) >= 2
    /\ csr[1].IPAddresses # servingCert[1].IPAddresses
    /\ IPStrings(csr[1].IPAddresses) # IPStrings(servingCert[1].IPAddresses)

-----------------------------------------------------------------------------
\* the machine-api scheme ran for a serving CSR whose asking name has a
\* Machine by NodeRef
FallbackCase ==
    /\ Done
    /\ ServingCSR
    /\ fellBack
    /\ MachinesByNodeRef(AskingName) # {}

DNSSANsMatch ==
    \A i \in DOMAIN csr[1].DNSNames :
        csr[1].DNSNames[i] # "" =>
            \E j \in DOMAIN TargetMachine.Status.Addresses :
                /\ TargetMachine.Status.Addresses[j].Type
                       \in {"InternalDNS", "ExternalDNS", "Hostname"}
                /\ TargetMachine.Status.Addresses[j].Address
                       = csr[1].DNSNames[i]

IPSANsMatch ==
    \A i \in DOMAIN csr[1].IPAddresses :
        csr[1].IPAddresses[i].len # 0 =>
            \E j \in DOMAIN TargetMachine.Status.Addresses :
                /\ TargetMachine.Status.Addresses[j].Type
                       \in {"InternalIP", "ExternalIP"}
                /\ TargetMachine.Status.Addresses[j].Address
                       = IPString(csr[1].IPAddresses[i])

(* C7: on the machine-api path, for a serving CSR whose asking name has a  *)
(* Machine by NodeRef, the decision is (true, nil) exactly when every      *)
(* non-empty DNS SAN is the value of an InternalDNS, ExternalDNS or        *)
(* Hostname address of that Machine and every non-empty IP SAN is, as      *)
(* text, the value of an InternalIP or ExternalIP address of it, and       *)
(* (false, err) otherwise; email and URI SANs play no part.                *)
C7_FallbackSANs ==
    FallbackCase =>
        IF DNSSANsMatch /\ IPSANsMatch THEN Approved ELSE Refused

C7_Witness ==
    /\ FallbackCase
    /\ Approved
    /\ \E i \in DOMAIN csr[1].DNSNames : csr[1].DNSNames[i] # ""
    /\ \E i \in DOMAIN csr[1].IPAddresses : csr[1].IPAddresses[i].len # 0
    /\ csr[1].EmailAddresses # <<>>

-----------------------------------------------------------------------------
\* the CSR has the node client bootstrap shape
ClientShape == HaveRequest /\ isNodeClientCert(req[1], csr[1])

(* C8: with NodeClientCert.Disabled set, a client bootstrap CSR gets       *)
(* (false, err) without any Node lookup; the decision of a serving CSR     *)
(* does not depend on the flag: it is the renewal approval or what the     *)
(* machine-api scheme returns.                                             *)
C8_DisabledFlow ==
    /\ (ClientShape /\ config.NodeClientCert.Disabled) =>
           /\ pc \in {"start", "done"}
           /\ nodeGet = "none"
           /\ Done => Refused
    /\ (Done /\ ServingCSR) =>
           result = IF RenewalApproved THEN Decision(TRUE, nilErr)
                    ELSE NoCAResult

C8_Witness ==
    /\ Done
    /\ ClientShape
    /\ config.NodeClientCert.Disabled
    /\ MachinesByInternalDNS(ClientNodeName) # {}
    /\ Refused

-----------------------------------------------------------------------------
(* C9: once the caller has cancelled, a decision waiting for the Node      *)
(* lookup or for the TLS dial aborts: its next step is its return with the *)
(* cancellation as its error, not a step made with the API's answer or the *)
(* dial's outcome.                                                         *)
C9_CancellationAborts ==
    [][ (cancelled /\ pc \in Blocked)
            => (pc' = "done" /\ result'.err = "context canceled") ]_vars

-----------------------------------------------------------------------------
RecentPending(list) ==
    { i \in DOMAIN list :
        /\ list[i].CreationTimestamp > clock - maxPendingDelta
        /\ list[i].CreationTimestamp < clock + maxMachineClockSkew
        /\ \A j \in DOMAIN list[i].Status.Conditions :
               list[i].Status.Conditions[j].Type # "Approved" }

(* C10: for a fixed clock recentlyPendingCSRs returns the number of CSRs   *)
(* of the list created strictly inside (now - 1h, now + 10s) that carry no *)
(* Approved condition, and the count of a list with one more CSR appended  *)
(* is never smaller.                                                       *)
C10_BacklogCount ==
    /\ pending = Cardinality(RecentPending(csrs))
    /\ \A c \in ListedCSRs(clock) :
           recentlyPendingCSRs(Append(csrs, c), clock) >= pending

C10_Witness ==
    /\ pending = 1
    /\ Len(csrs) = 2
    /\ csrs[1].Status.Conditions = <<Condition(CertificateDenied)>>
    /\ csrs[1].CreationTimestamp = clock + maxMachineClockSkew - 1
    /\ csrs[2].Status.Conditions = <<>>
    /\ csrs[2].CreationTimestamp = clock - maxPendingDelta

====
